---- MODULE Spec2Model ----
(***************************************************************************)
(* gorep: the pattern compiler (ParsePattern) and the backtracking matcher *)
(* (Pattern.Match) of package patterns.                                    *)
(*                                                                         *)
(* Runes are Unicode code points (integers).  A Go string is the sequence  *)
(* of its UTF-8 bytes; []rune(s) and string(runes) are Utf8Decode and      *)
(* Utf8Encode.  Positions are 0-based as in the source: At(s, i) is s[i]   *)
(* and Slice(s, a, b) is s[a:b].                                           *)
(***************************************************************************)
EXTENDS Integers, Sequences, FiniteSets, TLC

VARIABLES pattern, input, pc, compiled, startPos, captures, last, result

vars == <<pattern, input, pc, compiled, startPos, captures, last, result>>

RECURSIVE Utf8Decode(_)
RECURSIVE Flatten(_)
RECURSIVE ElementMatch(_, _)
RECURSIVE ScanClose(_, _, _)
RECURSIVE CollectSet(_, _, _)
RECURSIVE ParseLoop(_, _, _, _)
RECURSIVE AlternativesLoop(_, _, _, _, _, _)
RECURSIVE parsePatternInternal(_, _)
RECURSIVE matchHereWithState(_, _, _, _, _)
RECURSIVE OneOrMoreStateLoop(_, _, _, _, _, _, _)
RECURSIVE AlternationStateLoop(_, _, _, _, _, _, _)
RECURSIVE matchHereWithCaptures(_, _, _, _)
RECURSIVE CapturesLoop(_, _, _, _, _)
RECURSIVE AlternationCapturesLoop(_, _, _, _, _, _, _)
RECURSIVE OneOrMoreCapturesLoop(_, _, _, _, _, _, _)
RECURSIVE matchElementOnce(_, _, _, _)
RECURSIVE MakeCaptures(_)
RECURSIVE MatchFrom(_, _, _)

-----------------------------------------------------------------------------
(* Runes, strings and the two conversions between them.                    *)

\* The characters used in patterns and inputs, with their code points.
CodePoint ==
    ("a" :> 97) @@ ("b" :> 98) @@ ("c" :> 99) @@ ("d" :> 100) @@ ("w" :> 119)
    @@ ("x" :> 120) @@ ("(" :> 40) @@ (")" :> 41) @@ ("|" :> 124)
    @@ ("+" :> 43) @@ ("?" :> 63) @@ ("." :> 46) @@ ("\\" :> 92)
    @@ ("[" :> 91) @@ ("]" :> 93) @@ ("^" :> 94) @@ ("$" :> 36)
    @@ ("0" :> 48) @@ ("1" :> 49) @@ ("2" :> 50) @@ ("9" :> 57) @@ ("_" :> 95)
    @@ ("-" :> 45) @@ ("\n" :> 10) @@ ("é" :> 233)

R(c) == CodePoint[c]

\* A rune slice written as a tuple of characters.
Runes(t) == [i \in 1..Len(t) |-> R(t[i])]

At(s, i) == s[i + 1]

Slice(s, a, b) == SubSeq(s, a + 1, b)

\* string(r) for one rune: its UTF-8 bytes (code points below 2048).
Utf8Rune(r) ==
    IF r < 128 THEN <<r>> ELSE <<192 + (r \div 64), 128 + (r % 64)>>

Flatten(ss) == IF ss = <<>> THEN <<>> ELSE Head(ss) \o Flatten(Tail(ss))

\* string(runes)
Utf8Encode(runes) == Flatten([i \in 1..Len(runes) |-> Utf8Rune(runes[i])])

\* []rune(s)
Utf8Decode(bytes) ==
    IF bytes = <<>> THEN <<>>
    ELSE IF bytes[1] < 128 THEN <<bytes[1]>> \o Utf8Decode(Tail(bytes))
    ELSE <<(bytes[1] - 192) * 64 + (bytes[2] - 128)>>
             \o Utf8Decode(Tail(Tail(bytes)))

\* A Go string written as a tuple of characters.
Str(t) == Utf8Encode(Runes(t))

\* unicode.IsDigit and unicode.IsLetter on the runes of CodePoint.
IsDigit(r) == r \in 48..57

IsLetter(r) == r \in (65..90) \cup (97..122) \cup {233}

-----------------------------------------------------------------------------
(* Pattern elements.                                                       *)

LiteralMatcher(c) == [kind |-> "Literal", char |-> c]

DigitMatcher == [kind |-> "Digit"]

AlphanumericMatcher == [kind |-> "Alphanumeric"]

CharacterSetMatcher(chars, negated) ==
    [kind |-> "CharacterSet", chars |-> chars, negated |-> negated]

OneOrMoreMatcher(m) == [kind |-> "OneOrMore", matcher |-> m]

ZeroOrOneMatcher(m) == [kind |-> "ZeroOrOne", matcher |-> m]

WildcardMatcher == [kind |-> "Wildcard"]

AlternationMatcher(alts) == [kind |-> "Alternation", alternatives |-> alts]

GroupMatcher(index, p) == [kind |-> "Group", index |-> index, pattern |-> p]

BackReferenceMatcher(index) == [kind |-> "BackReference", index |-> index]

Pattern(elements, startAnchor, endAnchor, groupCount) ==
    [elements |-> elements, startAnchor |-> startAnchor,
     endAnchor |-> endAnchor, groupCount |-> groupCount]

\* PatternElement.Match(r), by element type.
ElementMatch(e, r) ==
    CASE e.kind = "Literal" -> e.char = r
      [] e.kind = "Digit" -> IsDigit(r)
      [] e.kind = "Alphanumeric" -> IsLetter(r) \/ IsDigit(r) \/ r = R("_")
      [] e.kind = "CharacterSet" ->
            IF \E i \in 1..Len(e.chars) : e.chars[i] = r
            THEN ~e.negated ELSE e.negated
      [] e.kind = "OneOrMore" -> ElementMatch(e.matcher, r)
      [] e.kind = "ZeroOrOne" -> ElementMatch(e.matcher, r)
      [] e.kind = "Wildcard" -> r # R("\n")
      [] e.kind = "Alternation" -> FALSE
      [] e.kind = "Group" -> FALSE
      [] e.kind = "BackReference" -> FALSE

-----------------------------------------------------------------------------
(* The compiler.                                                           *)

\* The quantifier check that follows every atom but a backreference: the
\* element to append and the index of the last rune consumed.
Quantified(runes, i, element) ==
    IF i + 1 < Len(runes) /\ At(runes, i + 1) = R("+")
    THEN [i |-> i + 1, element |-> OneOrMoreMatcher(element)]
    ELSE IF i + 1 < Len(runes) /\ At(runes, i + 1) = R("?")
    THEN [i |-> i + 1, element |-> ZeroOrOneMatcher(element)]
    ELSE [i |-> i, element |-> element]

\* The scan for the closing parenthesis: i and depth when the loop ends.
ScanClose(runes, i, depth) ==
    IF i < Len(runes) /\ depth > 0
    THEN ScanClose(runes, i + 1,
                   IF At(runes, i) = R("(") THEN depth + 1
                   ELSE IF At(runes, i) = R(")") THEN depth - 1
                   ELSE depth)
    ELSE [i |-> i, depth |-> depth]

\* The loop collecting the runes of a character set up to the next ']'.
CollectSet(runes, i, chars) ==
    IF i < Len(runes) /\ At(runes, i) # R("]")
    THEN CollectSet(runes, i + 1, Append(chars, At(runes, i)))
    ELSE [i |-> i, chars |-> chars]

\* parseAlternatives: the loop over the runes, then the final alternative.
AlternativesLoop(runes, i, depth, start, alts, counter) ==
    IF i < Len(runes)
    THEN CASE At(runes, i) = R("(") ->
                AlternativesLoop(runes, i + 1, depth + 1, start, alts, counter)
           [] At(runes, i) = R(")") ->
                AlternativesLoop(runes, i + 1, depth - 1, start, alts, counter)
           [] At(runes, i) = R("|") /\ depth = 0 ->
                LET alt == parsePatternInternal(
                               Utf8Encode(Slice(runes, start, i)), counter)
                IN  IF alt.err THEN [err |-> TRUE, alts |-> <<>>, counter |-> alt.counter]
                    ELSE AlternativesLoop(runes, i + 1, depth, i + 1,
                                          Append(alts, alt.pattern), alt.counter)
           [] OTHER ->
                AlternativesLoop(runes, i + 1, depth, start, alts, counter)
    ELSE IF start < Len(runes)
    THEN LET alt == parsePatternInternal(
                        Utf8Encode(Slice(runes, start, Len(runes))), counter)
         IN  IF alt.err THEN [err |-> TRUE, alts |-> <<>>, counter |-> alt.counter]
             ELSE [err |-> FALSE, alts |-> Append(alts, alt.pattern),
                   counter |-> alt.counter]
    ELSE [err |-> FALSE, alts |-> alts, counter |-> counter]

\* parseAlternatives with the group counter restarted for the group body.
parseAlternativesRestart(str, counter) ==
    AlternativesLoop(Utf8Decode(str), 0, 0, 0, <<>>, 0)

parseAlternatives(str, counter) ==
    AlternativesLoop(Utf8Decode(str), 0, 0, 0, <<>>, counter)

\* The group's inner pattern, built from the alternatives of its body.
GroupInner(alts, counter) ==
    IF Len(alts) = 1
    THEN [alts[1] EXCEPT !.groupCount = counter]
    ELSE Pattern(<<AlternationMatcher(alts)>>, FALSE, FALSE, counter)

\* The main loop of parsePatternInternal, from index i.
ParseLoop(runes, i, elements, counter) ==
    IF i >= Len(runes)
    THEN [err |-> FALSE, elements |-> elements, counter |-> counter]
    ELSE
    LET r == At(runes, i) IN
    CASE r = R("(") ->
           LET groupIndex == counter + 1
               scan == ScanClose(runes, i + 1, 1)
               close == scan.i - 1
               got == parseAlternatives(
                          Utf8Encode(Slice(runes, i + 1, close)), groupIndex)
               element == GroupMatcher(groupIndex, GroupInner(got.alts, got.counter))
               q == Quantified(runes, close, element)
           IN  IF scan.depth > 0
               THEN [err |-> TRUE, elements |-> <<>>, counter |-> groupIndex]
               ELSE IF got.err
               THEN [err |-> TRUE, elements |-> <<>>, counter |-> got.counter]
               ELSE ParseLoop(runes, q.i + 1, Append(elements, q.element),
                              got.counter)
      [] r = R(".") ->
           LET q == Quantified(runes, i, WildcardMatcher)
           IN  ParseLoop(runes, q.i + 1, Append(elements, q.element), counter)
      [] r = R("\\") ->
           IF i + 1 >= Len(runes)
           THEN ParseLoop(runes, i + 1, elements, counter)
           ELSE LET x == At(runes, i + 1) IN
                IF x >= R("1") /\ x <= R("9")
                THEN ParseLoop(runes, i + 2,
                               Append(elements, BackReferenceMatcher(x - R("0"))),
                               counter)
                ELSE LET element ==
                             CASE x = R("d") -> DigitMatcher
                               [] x = R("w") -> AlphanumericMatcher
                               [] OTHER -> LiteralMatcher(x)
                         q == Quantified(runes, i + 1, element)
                     IN  ParseLoop(runes, q.i + 1, Append(elements, q.element),
                                   counter)
      [] r = R("[") ->
           LET negated == i + 1 < Len(runes) /\ At(runes, i + 1) = R("^")
               set == CollectSet(runes, IF negated THEN i + 2 ELSE i + 1, <<>>)
               q == Quantified(runes, set.i,
                               CharacterSetMatcher(set.chars, negated))
           IN  ParseLoop(runes, q.i + 1, Append(elements, q.element), counter)
      [] OTHER ->
           LET q == Quantified(runes, i, LiteralMatcher(r))
           IN  ParseLoop(runes, q.i + 1, Append(elements, q.element), counter)

\* The anchor detection of parsePatternInternal: the flags and the runes left.
StripStartAnchor(runes) ==
    IF Len(runes) > 0 /\ runes[1] = R("^")
    THEN [anchor |-> TRUE, runes |-> Tail(runes)]
    ELSE [anchor |-> FALSE, runes |-> runes]

StripEndAnchor(runes) ==
    IF Len(runes) > 0 /\ runes[Len(runes)] = R("$")
    THEN [anchor |-> TRUE, runes |-> SubSeq(runes, 1, Len(runes) - 1)]
    ELSE [anchor |-> FALSE, runes |-> runes]

parsePatternInternal(str, counter) ==
    LET s == StripStartAnchor(Utf8Decode(str))
        e == StripEndAnchor(s.runes)
        body == ParseLoop(e.runes, 0, <<>>, counter)
    IN  IF body.err
        THEN [err |-> TRUE, counter |-> body.counter]
        ELSE [err |-> FALSE, counter |-> body.counter,
              pattern |-> Pattern(body.elements, s.anchor, e.anchor,
                                  body.counter)]

\* ParsePattern: [err |-> TRUE] or [err |-> FALSE, pattern |-> p].
ParsePattern(str) ==
    LET p == parsePatternInternal(str, 0)
    IN  IF p.err THEN [err |-> TRUE]
        ELSE [err |-> FALSE,
              pattern |-> [p.pattern EXCEPT !.groupCount = p.counter]]

-----------------------------------------------------------------------------
(* The matcher.                                                            *)
(*                                                                         *)
(* A capture array is a sequence of Go strings, "" (the empty sequence)    *)
(* for a group with no capture.  matchHereWithState passes its captures    *)
(* slice on without copying it, so the model gives it a heap of capture    *)
(* arrays and a reference into it.  matchHereWithCaptures and              *)
(* matchElementOnce only ever write to copies they or their callers made,  *)
(* so the model passes them the array's contents and gets back the         *)
(* contents after the call.  A result is [st, pos, caps] (plus heap for    *)
(* matchHereWithState, plus fresh for matchElementOnce: whether caps is a  *)
(* newly made array), st being "ok", "fail", "loop" when the call never    *)
(* returns, or "panic" when an index or a slice expression is out of range *)
(* (the Go runtime panics).                                                *)

\* The call returned to its caller: it neither loops forever nor panics.
Returns(r) == r.st \in {"ok", "fail"}

\* The run-time checks of s[i] and s[lo:hi] on a slice of length n.
IndexInRange(i, n) == i >= 0 /\ i < n

SliceInRange(lo, hi, n) == 0 <= lo /\ lo <= hi /\ hi <= n

\* captures[index-1] = string(input[pos:newPos]) passes the run-time checks.
StoreInRange(caps, index, in, pos, newPos) ==
    IndexInRange(index - 1, Len(caps)) /\ SliceInRange(pos, newPos, Len(in))

\* The pattern of the elements from index k on (remaining, remainingPattern).
Remaining(p, k) ==
    Pattern(SubSeq(p.elements, k + 1, Len(p.elements)), FALSE, p.endAnchor,
            p.groupCount)

\* EndOfPattern with no check at all: endAnchor is ignored.
EndOfPatternAlways(p, in, pos) == TRUE

\* EndOfPattern with the test of endAnchor inverted.
EndOfPatternInverted(p, in, pos) == p.endAnchor \/ pos = Len(in)

\* The check once every element is consumed.
EndOfPattern(p, in, pos) == ~p.endAnchor \/ pos = Len(in)

\* The backreference comparison of matchHereWithState: the position after
\* the match, or -1.
BackReferenceState(in, pos, captured) ==
    IF captured = <<>> THEN -1
    ELSE IF pos + Len(captured) > Len(in) THEN -1
    ELSE IF Utf8Encode(Slice(in, pos, pos + Len(captured))) # captured THEN -1
    ELSE pos + Len(captured)

\* The backreference comparison of matchElementOnce: the same.
BackReferenceOnce(in, pos, capStr) ==
    LET capRunes == Utf8Decode(capStr) IN
    IF capStr = <<>> THEN -1
    ELSE IF pos + Len(capRunes) > Len(in) THEN -1
    ELSE IF \E i \in 0..(Len(capRunes) - 1) :
                At(in, pos + i) # At(capRunes, i) THEN -1
    ELSE pos + Len(capRunes)

matchElementOnce(element, in, pos, caps) ==
    CASE element.kind = "Group" ->
           LET r == matchHereWithCaptures(element.pattern, in, pos, caps)
           IN  IF r.st # "ok"
               THEN [st |-> r.st, pos |-> 0, fresh |-> FALSE, caps |-> caps]
               ELSE IF ~StoreInRange(r.caps, element.index, in, pos, r.pos)
               THEN [st |-> "panic", pos |-> 0, fresh |-> FALSE, caps |-> caps]
               ELSE [st |-> "ok", pos |-> r.pos, fresh |-> TRUE,
                     caps |-> [r.caps EXCEPT ![element.index] =
                                  Utf8Encode(Slice(in, pos, r.pos))]]
      [] element.kind = "BackReference" ->
           LET next == IF element.index - 1 < 0
                          \/ element.index - 1 >= Len(caps)
                       THEN -1
                       ELSE BackReferenceOnce(in, pos, caps[element.index])
           IN  IF next < 0
               THEN [st |-> "fail", pos |-> 0, fresh |-> FALSE, caps |-> caps]
               ELSE [st |-> "ok", pos |-> next, fresh |-> FALSE, caps |-> caps]
      [] OTHER ->
           IF pos >= Len(in) \/ ~ElementMatch(element, At(in, pos))
           THEN [st |-> "fail", pos |-> 0, fresh |-> FALSE, caps |-> caps]
           ELSE [st |-> "ok", pos |-> pos + 1, fresh |-> FALSE, caps |-> caps]

\* ZeroOrOneResult with the two attempts in the other order: take first.
ZeroOrOneTakeFirst(skip, take) == IF take.st # "fail" THEN take ELSE skip

\* The order of the two attempts of a ZeroOrOneMatcher: the result of
\* skipping the element when that does not fail, else the result of taking
\* it once.
ZeroOrOneResult(skip, take) == IF skip.st # "fail" THEN skip ELSE take

\* The loop over the alternatives, from alternative k (1-based).
AlternationCapturesLoop(alts, k, rest, in, inputPos, caps, n) ==
    IF k > n THEN [st |-> "fail", pos |-> 0, caps |-> caps]
    ELSE LET a == matchHereWithCaptures(alts[k], in, inputPos, caps)
             b == matchHereWithCaptures(rest, in, a.pos, a.caps)
         IN  IF ~Returns(a) THEN [st |-> a.st, pos |-> 0, caps |-> caps]
             ELSE IF a.st = "ok" /\ ~Returns(b)
             THEN [st |-> b.st, pos |-> 0, caps |-> caps]
             ELSE IF a.st = "ok" /\ b.st = "ok" THEN b
             ELSE AlternationCapturesLoop(alts, k + 1, rest, in, inputPos,
                                          caps, n)

\* The for { } loop of the OneOrMoreMatcher case.  It has no bound of its
\* own: an iteration that starts from an (inputPos, cp) an earlier one
\* started from repeats it, and the loop never ends.
OneOrMoreCapturesLoop(matcher, rest, in, inputPos, cp, caps, seen) ==
    IF \E k \in 1..Len(seen) : seen[k] = <<inputPos, cp>>
    THEN [st |-> "loop", pos |-> 0, caps |-> caps]
    ELSE LET r == matchHereWithCaptures(rest, in, inputPos, cp)
             m == matchElementOnce(matcher, in, inputPos, cp)
         IN  IF r.st # "fail" THEN
                 IF r.st = "ok" THEN r
                 ELSE [st |-> r.st, pos |-> 0, caps |-> caps]
             ELSE IF ~Returns(m)
             THEN [st |-> m.st, pos |-> 0, caps |-> caps]
             ELSE IF m.st = "fail"
             THEN [st |-> "fail", pos |-> 0, caps |-> caps]
             ELSE OneOrMoreCapturesLoop(matcher, rest, in, m.pos, m.caps,
                                        caps, Append(seen, <<inputPos, cp>>))

\* The loop of matchHereWithCaptures over the elements, from patternPos.
CapturesLoop(p, in, patternPos, inputPos, caps) ==
    IF patternPos >= Len(p.elements)
    THEN [st |-> IF EndOfPattern(p, in, inputPos) THEN "ok" ELSE "fail",
          pos |-> inputPos, caps |-> caps]
    ELSE
    LET element == At(p.elements, patternPos)
        rest == Remaining(p, patternPos + 1)
    IN
    CASE element.kind = "Alternation" ->
           AlternationCapturesLoop(element.alternatives, 1, rest, in,
                                   inputPos, caps,
                                   Len(element.alternatives))
      [] element.kind = "OneOrMore" ->
           LET m == matchElementOnce(element.matcher, in, inputPos, caps)
           IN  IF m.st # "ok" THEN [st |-> m.st, pos |-> 0, caps |-> caps]
               ELSE OneOrMoreCapturesLoop(element.matcher, rest, in, m.pos,
                                          m.caps, caps, <<>>)
      [] element.kind = "ZeroOrOne" ->
           LET zero == matchHereWithCaptures(rest, in, inputPos, caps)
               m == matchElementOnce(element.matcher, in, inputPos, caps)
               one == matchHereWithCaptures(rest, in, m.pos, m.caps)
               r == ZeroOrOneResult(zero,
                        IF m.st # "ok"
                        THEN [st |-> m.st, pos |-> 0, caps |-> caps]
                        ELSE one)
           IN  IF r.st = "ok" THEN r
               ELSE [st |-> r.st, pos |-> 0, caps |-> caps]
      [] OTHER ->
           LET m == matchElementOnce(element, in, inputPos, caps)
           IN  IF m.st # "ok" THEN [st |-> m.st, pos |-> 0, caps |-> caps]
               ELSE CapturesLoop(p, in, patternPos + 1, m.pos, m.caps)

matchHereWithCaptures(p, in, pos, caps) == CapturesLoop(p, in, 0, pos, caps)

\* The array a matchElementOnce result returns, as a reference: a new array
\* on the heap when it made one, the caller's array otherwise.
Returned(m, c, heap) ==
    IF m.fresh THEN [caps |-> Len(heap) + 1, heap |-> Append(heap, m.caps)]
    ELSE [caps |-> c, heap |-> heap]

\* The loop of the OneOrMoreMatcher case of matchHereWithState.
OneOrMoreStateLoop(matcher, rest, in, currentPos, pos, c, heap) ==
    IF currentPos <= Len(in)
    THEN LET r == matchHereWithState(rest, in, currentPos, c, heap)
         IN  IF r.st # "fail" THEN r
             ELSE IF currentPos < Len(in)
                     /\ ElementMatch(matcher, At(in, currentPos))
             THEN OneOrMoreStateLoop(matcher, rest, in, currentPos + 1,
                                     currentPos + 1, c, r.heap)
             ELSE [st |-> "fail", pos |-> pos, caps |-> c, heap |-> r.heap]
    ELSE [st |-> "fail", pos |-> pos, caps |-> c, heap |-> heap]

\* The loop of the AlternationMatcher case of matchHereWithState.
AlternationStateLoop(alts, k, rest, in, pos, c, heap) ==
    IF k > Len(alts)
    THEN [st |-> "fail", pos |-> pos, caps |-> c, heap |-> heap]
    ELSE LET a == matchHereWithState(alts[k], in, pos, c, heap)
         IN  IF a.st = "ok"
             THEN matchHereWithState(rest, in, a.pos, a.caps, a.heap)
             ELSE IF ~Returns(a) THEN a
             ELSE AlternationStateLoop(alts, k + 1, rest, in, pos, c, a.heap)

matchHereWithState(p, in, pos, c, heap) ==
    IF Len(p.elements) = 0
    THEN [st |-> IF EndOfPattern(p, in, pos) THEN "ok" ELSE "fail",
          pos |-> pos, caps |-> c, heap |-> heap]
    ELSE
    LET element == p.elements[1]
        rest == Remaining(p, 1)
    IN
    CASE element.kind = "Group" ->
           LET g == matchHereWithState(element.pattern, in, pos, c, heap)
               stored == [g.heap EXCEPT ![c][element.index] =
                             Utf8Encode(Slice(in, pos, g.pos))]
               r == matchHereWithState(rest, in, g.pos, c, stored)
           IN  IF ~Returns(g) THEN g
               ELSE IF g.st = "fail"
               THEN [st |-> "fail", pos |-> pos, caps |-> c, heap |-> g.heap]
               ELSE IF ~StoreInRange(g.heap[c], element.index, in, pos, g.pos)
               THEN [st |-> "panic", pos |-> pos, caps |-> c, heap |-> g.heap]
               ELSE IF r.st # "fail" THEN r
               ELSE [st |-> "fail", pos |-> pos, caps |-> c, heap |-> r.heap]
      [] element.kind = "BackReference" ->
           LET next == IF element.index < 1 \/ element.index > Len(heap[c])
                       THEN -1
                       ELSE BackReferenceState(in, pos, heap[c][element.index])
           IN  IF next < 0
               THEN [st |-> "fail", pos |-> pos, caps |-> c, heap |-> heap]
               ELSE matchHereWithState(rest, in, next, c, heap)
      [] element.kind = "OneOrMore" ->
           LET m == matchElementOnce(element.matcher, in, pos, heap[c])
               got == Returned(m, c, heap)
           IN  IF m.st # "ok"
               THEN [st |-> m.st, pos |-> pos, caps |-> c, heap |-> heap]
               ELSE OneOrMoreStateLoop(element.matcher, rest, in, m.pos,
                                       m.pos, got.caps, got.heap)
      [] element.kind = "ZeroOrOne" ->
           LET zero == matchHereWithState(rest, in, pos, c, heap)
               m == matchElementOnce(element.matcher, in, pos, zero.heap[c])
               got == Returned(m, c, zero.heap)
           IN  ZeroOrOneResult(zero,
                   IF m.st # "ok"
                   THEN [st |-> m.st, pos |-> pos, caps |-> c,
                         heap |-> zero.heap]
                   ELSE matchHereWithState(rest, in, m.pos, got.caps,
                                           got.heap))
      [] element.kind = "Alternation" ->
           AlternationStateLoop(element.alternatives, 1, rest, in, pos, c, heap)
      [] OTHER ->
           LET m == matchElementOnce(element, in, pos, heap[c])
           IN  IF m.st # "ok"
               THEN [st |-> m.st, pos |-> pos, caps |-> c, heap |-> heap]
               ELSE matchHereWithState(rest, in, m.pos, c, heap)

\* make([]string, p.groupCount)
MakeCaptures(n) == IF n = 0 THEN <<>> ELSE Append(MakeCaptures(n - 1), <<>>)

\* One iteration of Match: matchHereWithState at startPos on new captures.
Attempt(p, in, at) ==
    matchHereWithState(p, in, at, 1, <<MakeCaptures(p.groupCount)>>)

\* StartPosInRange without the one-past-the-end position.
StartPosBeforeEnd(in, at) == at < Len(in)

\* The condition of the startPos loop.
StartPosInRange(in, at) == at <= Len(in)

\* The startPos loop of Match from at on: "true", "false", or the "loop" or
\* "panic" of a call that does not return.
MatchFrom(p, in, at) ==
    IF ~StartPosInRange(in, at) THEN "false"
    ELSE LET r == Attempt(p, in, at)
         IN  IF r.st = "ok" THEN "true"
             ELSE IF ~Returns(r) THEN r.st
             ELSE MatchFrom(p, in, at + 1)

Match(p, in) ==
    IF p.startAnchor
    THEN LET r == Attempt(p, in, 0)
         IN  IF r.st = "ok" THEN "true"
             ELSE IF ~Returns(r) THEN r.st ELSE "false"
    ELSE MatchFrom(p, in, 0)

-----------------------------------------------------------------------------
(* The driver's use of the engine: compile the pattern, then Match, one    *)
(* start position per step.                                                *)

MaxPatternLen == 3

MaxInputLen == 3

\* The runes the generated patterns and inputs are made of.
PatternAlphabet ==
    {R("a"), R("b"), R("("), R(")"), R("+"), R("?"), R("\\"), R("^"), R("$")}

InputAlphabet == {R("a"), R("b")}

\* All rune sequences over alphabet of length at most n.
SeqsUpTo(alphabet, n) == UNION {[1..k -> alphabet] : k \in 0..n}

GeneratedPatterns == SeqsUpTo(PatternAlphabet, MaxPatternLen)

\* p has no outer anchor: it does not begin with '^' nor end with '$'.
NoOuterAnchors(p) ==
    p = <<>> \/ (p[1] # R("^") /\ p[Len(p)] # R("$"))

\* "^" + p + "$"
Anchored(p) == <<R("^")>> \o p \o <<R("$")>>

\* P (G)+ Q, G the alternation of the words.
PlusGroupPattern(p, words, q) ==
    p \o Runes(<<"(">>)
      \o (IF Len(words) = 1 THEN words[1]
          ELSE words[1] \o Runes(<<"|">>) \o words[2])
      \o Runes(<<")", "+">>) \o q

PlusGroupCases ==
    {<<Runes(<<"a">>), <<Runes(<<"b">>), Runes(<<"c">>)>>, Runes(<<"d">>)>>,
     <<Runes(<<"a">>), <<Runes(<<"b">>)>>, Runes(<<"a">>)>>,
     <<Runes(<<"a">>), <<Runes(<<"b">>)>>, <<>>>>,
     <<<<>>, <<Runes(<<"a">>), Runes(<<"b">>)>>, <<>>>>,
     <<Runes(<<"b">>), <<Runes(<<"a">>)>>, Runes(<<"b">>)>>}

\* a | b at the top level.
TopAlternationPattern(a, b) == a \o Runes(<<"|">>) \o b

TopAlternationBranches == SeqsUpTo(InputAlphabet, 1)

\* ((X)Y|Z)\2
StaleCapturePattern(x, y, z) ==
    Runes(<<"(", "(">>) \o <<x>> \o Runes(<<")">>) \o <<y>>
        \o Runes(<<"|">>) \o <<z>> \o Runes(<<")", "\\", "2">>)

\* ((X)qY)\2, q one of + and ?
NestedCapturePattern(x, q, y) ==
    Runes(<<"(", "(">>) \o <<x>> \o Runes(<<")">>) \o <<q>> \o <<y>>
        \o Runes(<<")", "\\", "2">>)

\* (X)\1
BackReferencePattern(x) ==
    Runes(<<"(">>) \o <<x>> \o Runes(<<")", "\\", "1">>)

BackReferenceRunes == {R("a"), R("é")}

\* X+Y, X a single-rune class (a literal or the wildcard) and Y a literal.
GreedyPattern(x, y) == <<x>> \o Runes(<<"+">>) \o <<y>>

GreedyClasses == {R("a"), R("b"), R(".")}

\* X?Y with X the literal x: bare, as the group (x), and inside a
\* quantified group, (x?Y)+.
OptionalPattern(form, x, y) ==
    CASE form = "literal" -> <<x>> \o Runes(<<"?">>) \o y
      [] form = "group" ->
            Runes(<<"(">>) \o <<x>> \o Runes(<<")", "?">>) \o y
      [] form = "nested" ->
            Runes(<<"(">>) \o <<x>> \o Runes(<<"?">>) \o y
                \o Runes(<<")", "+">>)

OptionalForms == {"literal", "group", "nested"}

OptionalRests == SeqsUpTo(InputAlphabet, 2) \ {<<>>}

OptionalCases ==
    {[x |-> x, y |-> y, runes |-> OptionalPattern(f, x, y)] :
        f \in OptionalForms, x \in InputAlphabet, y \in OptionalRests}

\* A quantified group whose body can match the empty span, in a quantified
\* group.
EmptyBodyPatterns ==
    { Runes(<<"(", "(", "a", "?", ")", "+", "b", ")", "+">>),
      Runes(<<"^", "(", "(", "a", "?", ")", "+", "b", ")", "?", "$">>) }

\* A backreference to a group the pattern does not have, or that comes
\* after the backreference.
DanglingBackReferencePatterns ==
    { Runes(<<"\\", "1">>),
      Runes(<<"(", "a", ")", "\\", "2">>),
      Runes(<<"\\", "1", "(", "a", ")">>) }

\* (^x) and (x$)
StartAnchorInGroupPattern(x) == Runes(<<"(", "^">>) \o <<x>> \o Runes(<<")">>)

EndAnchorInGroupPattern(x) == Runes(<<"(">>) \o <<x>> \o Runes(<<"$", ")">>)

\* (x?)y\1
EmptyCapturePattern(x, y) ==
    Runes(<<"(">>) \o <<x>> \o Runes(<<"?", ")">>) \o <<y>>
        \o Runes(<<"\\", "1">>)

\* ( body ), the body being literals separated by '|': the body and the
\* literal of each of its alternatives.
GroupBodyPattern(body) == Runes(<<"(">>) \o body \o Runes(<<")">>)

GroupBodyCases ==
    { [body |-> <<>>, alternatives |-> << <<>> >>],
      [body |-> Runes(<<"a">>), alternatives |-> <<Runes(<<"a">>)>>],
      [body |-> Runes(<<"a", "|">>), alternatives |-> <<Runes(<<"a">>), <<>>>>],
      [body |-> Runes(<<"|", "a">>), alternatives |-> <<<<>>, Runes(<<"a">>)>>],
      [body |-> Runes(<<"a", "|", "b">>),
       alternatives |-> <<Runes(<<"a">>), Runes(<<"b">>)>>] }

\* (\() and (a\))
EscapedOpenPattern == Runes(<<"(", "\\", "(", ")">>)

EscapedClosePattern == Runes(<<"(", "a", "\\", ")", ")">>)

\* ((a)|(b))(a): groups nested in a group, in two branches, and after it.
NumberingPattern ==
    Runes(<<"(", "(", "a", ")", "|", "(", "b", ")", ")", "(", "a", ")">>)

\* Groups G, matched as ^G$ and as ^G?$: a literal body, and bodies with a
\* quantified group, a group in a branch, and two branches.
EquivalenceGroups ==
    {GroupBodyPattern(body) : body \in SeqsUpTo(InputAlphabet, 2)}
    \cup { Runes(<<"(", "(", "a", ")", "+", "b", ")">>),
           Runes(<<"(", "(", "a", ")", "+", ")">>),
           Runes(<<"(", "(", "a", ")", "?", "b", ")">>),
           Runes(<<"(", "(", "a", ")", "|", "b", ")">>),
           Runes(<<"(", "a", "|", "b", ")">>) }

\* G?
Optional(g) == g \o Runes(<<"?">>)

FamilyPatterns ==
    {PlusGroupPattern(c[1], c[2], c[3]) : c \in PlusGroupCases}
    \cup {TopAlternationPattern(a, b) : a, b \in TopAlternationBranches}
    \cup {StaleCapturePattern(x, y, z) : x, y, z \in InputAlphabet}
    \cup {NestedCapturePattern(x, q, y) :
              x, y \in InputAlphabet, q \in {R("+"), R("?")}}
    \cup {BackReferencePattern(x) : x \in BackReferenceRunes}
    \cup {GreedyPattern(x, y) : x \in GreedyClasses, y \in InputAlphabet}
    \cup {c.runes : c \in OptionalCases}
    \cup EmptyBodyPatterns
    \cup DanglingBackReferencePatterns
    \cup {StartAnchorInGroupPattern(x) : x \in InputAlphabet}
    \cup {EndAnchorInGroupPattern(x) : x \in InputAlphabet}
    \cup {EmptyCapturePattern(x, y) : x, y \in InputAlphabet}
    \cup {Anchored(EmptyCapturePattern(x, y)) : x, y \in InputAlphabet}
    \cup {GroupBodyPattern(c.body) : c \in GroupBodyCases}
    \cup {EscapedOpenPattern, EscapedClosePattern, NumberingPattern}
    \cup {Anchored(g) : g \in EquivalenceGroups}
    \cup {Anchored(Optional(g)) : g \in EquivalenceGroups}

\* The pattern strings the driver is run on.
Patterns ==
    {Utf8Encode(p) : p \in GeneratedPatterns \cup FamilyPatterns}
    \cup {Utf8Encode(Anchored(p)) :
              p \in {g \in GeneratedPatterns : NoOuterAnchors(g)}}

NamedInputs ==
    { Runes(<<"a", "b", "c", "b", "d">>),
      Runes(<<"é", "é">>),
      Runes(<<"é", "a">>),
      Runes(<<"^", "a">>),
      Runes(<<"a", "$">>) }

Inputs == SeqsUpTo(InputAlphabet, MaxInputLen) \cup NamedInputs

NoPattern == Pattern(<<>>, FALSE, FALSE, 0)

NoAttempt == [at |-> 0, st |-> "none", pos |-> 0, caps |-> <<>>]

Init ==
    /\ pattern \in Patterns
    /\ input \in Inputs
    /\ pc = "parse"
    /\ compiled = NoPattern
    /\ startPos = 0
    /\ captures = <<>>
    /\ last = NoAttempt
    /\ result = "none"

\* ParsePattern(pattern); a compile error ends the run.
Parse ==
    /\ pc = "parse"
    /\ LET r == ParsePattern(pattern)
       IN  IF r.err
           THEN /\ pc' = "error"
                /\ compiled' = compiled
           ELSE /\ pc' = "match"
                /\ compiled' = r.pattern
    /\ UNCHANGED <<pattern, input, startPos, captures, last, result>>

\* One matchHereWithState call of Match: the only one when the pattern is
\* anchored at the start, one iteration of the startPos loop otherwise.  A
\* call that never returns leaves Match hung, one that panics ends the run.
MatchAttempt ==
    /\ pc = "match"
    /\ compiled.startAnchor \/ StartPosInRange(input, startPos)
    /\ LET r == Attempt(compiled, input, startPos)
       IN  /\ captures' = r.heap[1]
           /\ last' = [at |-> startPos, st |-> r.st, pos |-> r.pos,
                        caps |-> r.heap[r.caps]]
           /\ IF ~Returns(r)
              THEN /\ pc' = IF r.st = "loop" THEN "hung" ELSE "panicked"
                   /\ UNCHANGED <<startPos, result>>
              ELSE IF r.st = "ok"
              THEN /\ pc' = "done"
                   /\ result' = "true"
                   /\ UNCHANGED startPos
              ELSE IF compiled.startAnchor
              THEN /\ pc' = "done"
                   /\ result' = "false"
                   /\ UNCHANGED startPos
              ELSE /\ startPos' = startPos + 1
                   /\ UNCHANGED <<pc, result>>
    /\ UNCHANGED <<pattern, input, compiled>>

\* The startPos loop ends with no position left: Match returns false.
MatchExhausted ==
    /\ pc = "match"
    /\ ~compiled.startAnchor
    /\ ~StartPosInRange(input, startPos)
    /\ pc' = "done"
    /\ result' = "false"
    /\ UNCHANGED <<pattern, input, compiled, startPos, captures, last>>

Next == Parse \/ MatchAttempt \/ MatchExhausted

Spec == Init /\ [][Next]_vars

-----------------------------------------------------------------------------
(* Two Match calls on one compiled pattern, run concurrently.  Here input, *)
(* pc, startPos, captures, last and result hold one value per call; the    *)
(* pattern and its compiled form are the ones both calls use.  A call's    *)
(* step is one matchHereWithState call, as in MatchAttempt: within it the  *)
(* code reads the pattern and the input and writes only the capture array  *)
(* the call made.                                                          *)

Calls == {1, 2}

\* The patterns and inputs of the concurrent calls.
SharedPatterns ==
    {q \in {Utf8Encode(p) : p \in FamilyPatterns} : ~ParsePattern(q).err}

CallInputs == SeqsUpTo(InputAlphabet, MaxInputLen - 1)

\* OwnCaptures with one capture array for all the calls: the array the other
\* call wrote last.
SharedCaptures(p, arrays, c) ==
    LET other == CHOOSE d \in Calls : d # c
    IN  IF Len(arrays[other]) = p.groupCount THEN arrays[other]
        ELSE MakeCaptures(p.groupCount)

\* captures := make([]string, p.groupCount): the array of an attempt of
\* call c is new, whatever arrays the calls hold.
OwnCaptures(p, arrays, c) == MakeCaptures(p.groupCount)

ConcurrentInit ==
    /\ pattern \in SharedPatterns
    /\ compiled = ParsePattern(pattern).pattern
    /\ input \in {i \in CallInputs \X CallInputs : i[1] # i[2]}
    /\ pc = <<"match", "match">>
    /\ startPos = <<0, 0>>
    /\ captures = <<<<>>, <<>>>>
    /\ last = <<NoAttempt, NoAttempt>>
    /\ result = <<"none", "none">>

\* One matchHereWithState call of the Match call c.
CallAttempt(c) ==
    /\ pc[c] = "match"
    /\ compiled.startAnchor \/ StartPosInRange(input[c], startPos[c])
    /\ LET r == matchHereWithState(compiled, input[c], startPos[c], 1,
                                   <<OwnCaptures(compiled, captures, c)>>)
       IN  /\ captures' = [captures EXCEPT ![c] = r.heap[1]]
           /\ last' = [last EXCEPT ![c] =
                          [at |-> startPos[c], st |-> r.st, pos |-> r.pos,
                           caps |-> r.heap[r.caps]]]
           /\ IF ~Returns(r)
              THEN /\ pc' = [pc EXCEPT ![c] =
                               IF r.st = "loop" THEN "hung" ELSE "panicked"]
                   /\ UNCHANGED <<startPos, result>>
              ELSE IF r.st = "ok"
              THEN /\ pc' = [pc EXCEPT ![c] = "done"]
                   /\ result' = [result EXCEPT ![c] = "true"]
                   /\ UNCHANGED startPos
              ELSE IF compiled.startAnchor
              THEN /\ pc' = [pc EXCEPT ![c] = "done"]
                   /\ result' = [result EXCEPT ![c] = "false"]
                   /\ UNCHANGED startPos
              ELSE /\ startPos' = [startPos EXCEPT ![c] = startPos[c] + 1]
                   /\ UNCHANGED <<pc, result>>
    /\ UNCHANGED <<pattern, input, compiled>>

\* The startPos loop of call c ends with no position left.
CallExhausted(c) ==
    /\ pc[c] = "match"
    /\ ~compiled.startAnchor
    /\ ~StartPosInRange(input[c], startPos[c])
    /\ pc' = [pc EXCEPT ![c] = "done"]
    /\ result' = [result EXCEPT ![c] = "false"]
    /\ UNCHANGED <<pattern, input, compiled, startPos, captures, last>>

ConcurrentNext == \E c \in Calls : CallAttempt(c) \/ CallExhausted(c)

ConcurrentSpec == ConcurrentInit /\ [][ConcurrentNext]_vars

-----------------------------------------------------------------------------
(* What the claims speak of.                                               *)

\* The runes of the pattern string.
PatternRunes == Utf8Decode(pattern)

\* w occurs in s at position at (0-based).
OccursAt(s, at, w) ==
    at + Len(w) <= Len(s) /\ Slice(s, at, at + Len(w)) = w

\* w occurs somewhere in s.
Occurs(s, w) == \E at \in 0..Len(s) : OccursAt(s, at, w)

\* s is n >= 1 consecutive occurrences of words of the set.
RECURSIVE IsRepetition(_, _)
IsRepetition(s, words) ==
    \E i \in 1..Len(words) :
        /\ words[i] # <<>>
        /\ OccursAt(s, 0, words[i])
        /\ \/ Len(s) = Len(words[i])
           \/ IsRepetition(Slice(s, Len(words[i]), Len(s)), words)

\* ParsePattern(p).Match(in) for the pattern string with runes p: "true",
\* "false", "loop", "panic", or "error" when p does not compile.
MatchString(p, in) ==
    LET c == ParsePattern(Utf8Encode(p))
    IN  IF c.err THEN "error" ELSE Match(c.pattern, in)

\* Match has returned.
MatchReturned == pc = "done"

(* C1: a pattern P (G)+ Q matches every input that is P, then one or more  *)
(* occurrences of the body of G, then Q.                                   *)
C1_OneOrMoreRepeatsGroup ==
    \A c \in PlusGroupCases :
        (/\ pc \in {"done", "hung"}
         /\ PatternRunes = PlusGroupPattern(c[1], c[2], c[3])
         /\ \E i, j \in 0..Len(input) :
               /\ i < j
               /\ Slice(input, 0, i) = c[1]
               /\ IsRepetition(Slice(input, i, j), c[2])
               /\ Slice(input, j, Len(input)) = c[3])
        => result = "true"

(* C2: a '|' at the top level separates alternatives: a|b matches an input *)
(* iff a matches it or b matches it (a and b without groups and            *)
(* backreferences).                                                        *)
C2_TopLevelAlternation ==
    \A a, b \in TopAlternationBranches :
        (MatchReturned /\ PatternRunes = TopAlternationPattern(a, b))
        => ((result = "true")
              <=> (MatchString(a, input) = "true"
                     \/ MatchString(b, input) = "true"))

(* C3: a capture written on a branch that then failed is not seen by a     *)
(* later backreference: ((X)Y|Z)\2 matches only where the first branch was *)
(* taken, that is where X Y X occurs in the input.                         *)
C3_FailedBranchCaptureUnset ==
    \A x, y, z \in InputAlphabet :
        (MatchReturned /\ PatternRunes = StaleCapturePattern(x, y, z)
           /\ result = "true")
        => Occurs(input, <<x, y, x>>)

(* C4: the capture of a group nested in an unquantified group, also as the *)
(* inner of + or ?, is seen by a backreference after the outer group:      *)
(* ((X)+Y)\2 and ((X)?Y)\2, X # Y, match an input that begins X Y X.       *)
C4_NestedCaptureVisible ==
    \A x, y \in InputAlphabet, q \in {R("+"), R("?")} :
        (MatchReturned /\ PatternRunes = NestedCapturePattern(x, q, y) /\ x # y
           /\ OccursAt(input, 0, <<x, y, x>>))
        => result = "true"

(* C5: a backreference compares rune for rune: (X)\1 matches an input iff  *)
(* the rune X occurs twice in a row in it, whatever the UTF-8 length of X. *)
C5_BackReferenceRuneForRune ==
    \A x \in BackReferenceRunes :
        (MatchReturned /\ PatternRunes = BackReferencePattern(x))
        => ((result = "true") <=> Occurs(input, <<x, x>>))

(* C6: Match terminates: no call of Match is left in a loop that never     *)
(* ends.                                                                   *)
C6_MatchTerminates == pc # "hung"

\* The longest run of runes of the class x from position at that is followed
\* by the rune y; 0 when there is none.
ClassAccepts(x, r) == IF x = R(".") THEN r # R("\n") ELSE r = x

RunFollowedBy(in, at, x, y, n) ==
    /\ n >= 1
    /\ at + n < Len(in)
    /\ \A i \in 0..(n - 1) : ClassAccepts(x, At(in, at + i))
    /\ At(in, at + n) = y

LongestRun(in, at, x, y) ==
    LET runs == {n \in 1..Len(in) : RunFollowedBy(in, at, x, y, n)}
    IN  IF runs = {} THEN 0 ELSE CHOOSE n \in runs : \A m \in runs : m <= n

(* C7: + is greedy: in the accepted match of X+Y, the + has consumed the   *)
(* longest run of X-runes that Y follows.                                  *)
C7_OneOrMoreGreedy ==
    \A x \in GreedyClasses, y \in InputAlphabet :
        (MatchReturned /\ PatternRunes = GreedyPattern(x, y) /\ result = "true")
        => last.pos = last.at + LongestRun(input, last.at, x, y) + 1

(* C8: ? is skip-first: in X?Y the attempt at a position where Y matches   *)
(* without X succeeds with X consuming nothing; one X is taken only when   *)
(* the skip has failed, and the attempt fails iff both fail.               *)
C8_ZeroOrOneSkipFirst ==
    last.st # "none" =>
        LET q == PatternRunes IN
        \A c \in OptionalCases :
            q = c.runes
            => LET skip == OccursAt(input, last.at, c.y)
                   take == OccursAt(input, last.at, <<c.x>> \o c.y)
               IN  /\ skip =>
                        (last.st = "ok" /\ last.pos = last.at + Len(c.y))
                   /\ (~skip /\ take) =>
                        (last.st = "ok" /\ last.pos = last.at + 1 + Len(c.y))
                   /\ (~skip /\ ~take) => last.st = "fail"

\* Y matches at the position both without X and after it, and the attempt
\* ended after Y alone.
C8_Witness ==
    \E c \in OptionalCases :
        /\ PatternRunes = c.runes
        /\ last.st = "ok"
        /\ OccursAt(input, last.at, c.y)
        /\ OccursAt(input, last.at, <<c.x>> \o c.y)
        /\ last.pos = last.at + Len(c.y)

\* q is "^" + p + "$" for some p, and that p.
IsAnchored(q) == Len(q) >= 2 /\ q[1] = R("^") /\ q[Len(q)] = R("$")

Unanchored(q) == SubSeq(q, 2, Len(q) - 1)

(* C9: for p without outer anchors, if "^" + p + "$" matches an input then *)
(* p matches it.                                                           *)
C9_AnchoringImplication ==
    LET p == Unanchored(PatternRunes)
    IN  (MatchReturned /\ IsAnchored(PatternRunes) /\ NoOuterAnchors(p)
           /\ result = "true")
        => MatchString(p, input) = "true"

\* An anchored pattern with a quantifier has matched an input of several
\* runes.
C9_Witness ==
    LET p == Unanchored(PatternRunes)
    IN  /\ MatchReturned /\ IsAnchored(PatternRunes) /\ NoOuterAnchors(p)
        /\ \E i \in 1..Len(p) : p[i] \in {R("+"), R("?")}
        /\ Len(input) > 1
        /\ result = "true"

\* The attempt at start position k, on new captures, succeeds.
AttemptOk(k) == Attempt(compiled, input, k).st = "ok"

(* C10: an anchored pattern gets exactly one attempt, at position 0; an    *)
(* unanchored one gets the positions 0, 1, ..., len(input) in increasing   *)
(* order, each on new captures, Match returning true at the first that     *)
(* succeeds and false iff all fail.                                        *)
C10_SearchPositions ==
    /\ (pc \in {"match", "done"} /\ compiled.startAnchor) =>
          /\ startPos = 0
          /\ last.at = 0
          /\ pc = "match" => last.st = "none"
          /\ pc = "done" => (result = "true" <=> AttemptOk(0))
    /\ (pc \in {"match", "done"} /\ ~compiled.startAnchor) =>
          /\ startPos \in 0..(Len(input) + 1)
          /\ \A k \in 0..(startPos - 1) : ~AttemptOk(k)
          /\ last.st = "fail" => last.at = startPos - 1
          /\ last.st = "ok" => last.at = startPos
          /\ pc = "done" =>
                /\ result = "true" =>
                      (startPos <= Len(input) /\ AttemptOk(startPos))
                /\ result = "false" => startPos = Len(input) + 1
    /\ pc = "done" => result \in {"true", "false"}

\* Match on a pattern with groups returned true at position 2 of an input
\* of three runes, after positions 0 and 1 failed.
C10_Witness ==
    /\ pc = "done" /\ ~compiled.startAnchor
    /\ result = "true" /\ startPos = 2 /\ Len(input) = 3
    /\ compiled.groupCount > 0

-----------------------------------------------------------------------------
(* The compiled tree, as the claims about it read it.                      *)

RECURSIVE Groups(_, _)
RECURSIVE ElementGroups(_, _)
RECURSIVE SubPatterns(_)
RECURSIVE ElementSubPatterns(_)
RECURSIVE ParenDepth(_, _, _)
RECURSIVE ParenDepths(_, _, _)

\* The groups of the tree in the order of the elements, each with its index
\* and the number of groups around it.
ElementGroups(e, depth) ==
    CASE e.kind = "Group" ->
           <<[index |-> e.index, depth |-> depth]>>
               \o Groups(e.pattern, depth + 1)
      [] e.kind \in {"OneOrMore", "ZeroOrOne"} -> ElementGroups(e.matcher, depth)
      [] e.kind = "Alternation" ->
           Flatten([k \in 1..Len(e.alternatives) |->
                       Groups(e.alternatives[k], depth)])
      [] OTHER -> <<>>

Groups(p, depth) ==
    Flatten([k \in 1..Len(p.elements) |-> ElementGroups(p.elements[k], depth)])

\* The sub-patterns of the tree: group bodies and alternation branches.
ElementSubPatterns(e) ==
    CASE e.kind = "Group" -> {e.pattern} \cup SubPatterns(e.pattern)
      [] e.kind \in {"OneOrMore", "ZeroOrOne"} -> ElementSubPatterns(e.matcher)
      [] e.kind = "Alternation" ->
           UNION {{e.alternatives[k]} \cup SubPatterns(e.alternatives[k]) :
                     k \in 1..Len(e.alternatives)}
      [] OTHER -> {}

SubPatterns(p) ==
    UNION {ElementSubPatterns(p.elements[k]) : k \in 1..Len(p.elements)}

\* ParsePattern returned a pattern.
Compiled == pc \notin {"parse", "error"}

\* The literals of a rune sequence, one element each.
Literals(runes) == [k \in 1..Len(runes) |-> LiteralMatcher(runes[k])]

\* The pattern text read with \x as one literal: the number of '(' still
\* open after the runes from i on, a ')' with no '(' open being a literal.
ParenDepth(runes, i, depth) ==
    IF i >= Len(runes) THEN depth
    ELSE IF At(runes, i) = R("\\") THEN ParenDepth(runes, i + 2, depth)
    ELSE IF At(runes, i) = R("(") THEN ParenDepth(runes, i + 1, depth + 1)
    ELSE IF At(runes, i) = R(")") /\ depth > 0
    THEN ParenDepth(runes, i + 1, depth - 1)
    ELSE ParenDepth(runes, i + 1, depth)

\* Some '(' of the pattern text has no matching ')'.
UnclosedParen(runes) == ParenDepth(runes, 0, 0) > 0

\* The number of '(' open at each '(' of the text, in text order.
ParenDepths(runes, i, depth) ==
    IF i >= Len(runes) THEN <<>>
    ELSE IF At(runes, i) = R("\\") THEN ParenDepths(runes, i + 2, depth)
    ELSE IF At(runes, i) = R("(")
    THEN <<depth>> \o ParenDepths(runes, i + 1, depth + 1)
    ELSE IF At(runes, i) = R(")") /\ depth > 0
    THEN ParenDepths(runes, i + 1, depth - 1)
    ELSE ParenDepths(runes, i + 1, depth)

\* A non-empty sequence of plain literal runes.
IsLiteralText(x) == x # <<>> /\ \A k \in 1..Len(x) : x[k] \in InputAlphabet

(* C11: with every element consumed at endPos the attempt succeeds iff     *)
(* endAnchor is unset or endPos = len(input): the empty pattern matches    *)
(* every input, ^$ matches exactly the empty input, and ^X$ with X a       *)
(* non-empty literal does not match the empty input.                       *)
C11_EndOfPatternRule ==
    /\ (last.st \in {"ok", "fail"} /\ compiled.elements = <<>>) =>
          (last.st = "ok" <=> (~compiled.endAnchor \/ last.at = Len(input)))
    /\ last.st = "ok" => (~compiled.endAnchor \/ last.pos = Len(input))
    /\ MatchReturned =>
          LET q == PatternRunes
          IN  /\ q = <<>> => result = "true"
              /\ q = Anchored(<<>>) => (result = "true" <=> input = <<>>)
              /\ (IsAnchored(q) /\ IsLiteralText(Unanchored(q))
                    /\ input = <<>>) => result = "false"

\* The pattern $ has matched an input of several runes, at its end, after
\* the attempts before the end have failed on endAnchor.
C11_Witness ==
    /\ MatchReturned
    /\ compiled.elements = <<>> /\ compiled.endAnchor /\ ~compiled.startAnchor
    /\ Len(input) >= 2
    /\ result = "true" /\ startPos = Len(input)

(* C12: ParsePattern returns an error, and no pattern, exactly when some   *)
(* '(' of the pattern has no matching ')'; every other pattern compiles.   *)
C12_ErrorIffUnclosedParen ==
    pc # "parse" =>
        /\ (pc = "error") <=> UnclosedParen(PatternRunes)
        /\ pc = "error" => compiled = NoPattern

(* C13: Match ends in true or false, never in a run-time fault and never   *)
(* without a result; every group index of the compiled tree is within      *)
(* 1..groupCount, the size of the capture array.                           *)
C13_NoMatchTimeErrors ==
    /\ pc \notin {"hung", "panicked"}
    /\ pc = "done" => result \in {"true", "false"}
    /\ Compiled =>
          LET g == Groups(compiled, 0)
          IN  \A k \in 1..Len(g) : g[k].index \in 1..compiled.groupCount

\* What one call running alone ends in: the result of Match, or the state
\* of a call that does not return.
Alone(c) == Match(compiled, input[c])

(* C14: Match leaves the compiled pattern as ParsePattern made it, and in  *)
(* every interleaving of two Match calls on it, with different inputs,     *)
(* each call ends as it ends when run alone.                               *)
C14_IndependentCalls ==
    /\ compiled = ParsePattern(pattern).pattern
    /\ \A c \in Calls :
          /\ pc[c] = "done" => result[c] = Alone(c)
          /\ pc[c] = "hung" => Alone(c) = "loop"
          /\ pc[c] = "panicked" => Alone(c) = "panic"

\* Both calls have returned after attempts at several positions, one with
\* true and captures written, the other with false.
C14_Witness ==
    /\ pc = <<"done", "done">>
    /\ \A c \in Calls : startPos[c] >= 1
    /\ \E c, d \in Calls :
          /\ result[c] = "true" /\ result[d] = "false"
          /\ \E k \in 1..Len(captures[c]) : captures[c][k] # <<>>

(* C15: no sub-pattern made for a group body or an alternation branch has  *)
(* startAnchor or endAnchor set; ^ at the start and $ at the end of a      *)
(* group body are literals: (^x) matches exactly the inputs containing ^x  *)
(* and (x$) those containing x$.                                           *)
C15_AnchorsOuterOnly ==
    /\ Compiled =>
          \A sub \in SubPatterns(compiled) :
              ~sub.startAnchor /\ ~sub.endAnchor
    /\ MatchReturned =>
          \A x \in InputAlphabet :
              /\ PatternRunes = StartAnchorInGroupPattern(x) =>
                    (result = "true" <=> Occurs(input, <<R("^"), x>>))
              /\ PatternRunes = EndAnchorInGroupPattern(x) =>
                    (result = "true" <=> Occurs(input, <<x, R("$")>>))

(* C16: a group that matched the empty span has the empty capture, and a   *)
(* backreference to it succeeds consuming nothing: ^(x?)y\1$ matches the   *)
(* input y, and (x?)y\1 every input containing y.                          *)
C16_EmptyCaptureIsSet ==
    \A x, y \in InputAlphabet :
        (MatchReturned /\ x # y) =>
            /\ (PatternRunes = Anchored(EmptyCapturePattern(x, y))
                  /\ input = <<y>>) => result = "true"
            /\ (PatternRunes = EmptyCapturePattern(x, y)
                  /\ Occurs(input, <<y>>)) => result = "true"

(* C17: a group body with n top-level '|' has n + 1 alternatives, empty    *)
(* ones included; with one alternative the group's inner pattern has that  *)
(* alternative's elements, otherwise it is one Alternation of the          *)
(* alternatives; the group () matches the empty span.                      *)
C17_OneSubPatternPerAlternative ==
    \A c \in GroupBodyCases :
        (Compiled /\ PatternRunes = GroupBodyPattern(c.body)) =>
            /\ Len(compiled.elements) = 1
            /\ compiled.elements[1].kind = "Group"
            /\ LET inner == compiled.elements[1].pattern
                   n == Len(c.alternatives)
               IN  IF n = 1
                   THEN inner.elements = Literals(c.alternatives[1])
                   ELSE /\ Len(inner.elements) = 1
                        /\ inner.elements[1].kind = "Alternation"
                        /\ Len(inner.elements[1].alternatives) = n
                        /\ \A k \in 1..n :
                              k <= Len(inner.elements[1].alternatives) =>
                                  inner.elements[1].alternatives[k].elements
                                      = Literals(c.alternatives[k])
            /\ (MatchReturned /\ c.body = <<>>) => result = "true"

\* The runes x of the escapes \x the patterns contain: none is d, w or a
\* digit.
EscapedRunes == PatternAlphabet

(* C18: \x, x not d, w or a digit 1..9, compiles to Literal(x) wherever it *)
(* is in the pattern, also at its end with x = $: P\xQ, P and Q literals,  *)
(* compiles to the literals of P, x and Q with no anchor, and \$ matches   *)
(* exactly the inputs containing $.                                        *)
C18_EscapeIsLiteral ==
    /\ pc # "parse" =>
          \A x \in EscapedRunes, pre, post \in SeqsUpTo(InputAlphabet, 1) :
              PatternRunes = pre \o <<R("\\"), x>> \o post =>
                  /\ pc # "error"
                  /\ compiled =
                        Pattern(Literals(pre \o <<x>> \o post), FALSE, FALSE, 0)
    /\ (MatchReturned /\ PatternRunes = <<R("\\"), R("$")>>) =>
          (result = "true" <=> Occurs(input, <<R("$")>>))

(* C19: an escaped parenthesis takes no part in group nesting: (\() is a   *)
(* group with the body Literal('('), and (a\)) is a group closed by the    *)
(* last ')' with the body Literal('a'), Literal(')').                      *)
C19_EscapedParensAreLiterals ==
    pc # "parse" =>
        /\ PatternRunes = EscapedOpenPattern =>
              /\ pc # "error"
              /\ compiled.elements =
                    <<GroupMatcher(1, Pattern(Literals(Runes(<<"(">>)),
                                              FALSE, FALSE, 1))>>
        /\ PatternRunes = EscapedClosePattern =>
              /\ pc # "error"
              /\ compiled.elements =
                    <<GroupMatcher(1, Pattern(Literals(Runes(<<"a", ")">>)),
                                              FALSE, FALSE, 1))>>

\* The pattern text has no escape.
NoEscape(runes) == \A k \in 1..Len(runes) : runes[k] # R("\\")

(* C20: the groups of a compiled pattern carry the indices 1, 2, ...,      *)
(* groupCount, each once, in the order of their opening '(' in the text,   *)
(* an outer group before the groups nested in it, across branches, and     *)
(* groupCount is the number of groups.                                     *)
C20_GroupNumbering ==
    Compiled =>
        LET g == Groups(compiled, 0)
        IN  /\ \A k \in 1..Len(g) : g[k].index = k
            /\ compiled.groupCount = Len(g)
            /\ NoEscape(PatternRunes) =>
                  [k \in 1..Len(g) |-> g[k].depth]
                      = ParenDepths(PatternRunes, 0, 0)

\* A compiled pattern with four groups: one with one group in each of its
\* two branches, then one more.
C20_Witness ==
    /\ Compiled
    /\ PatternRunes = NumberingPattern
    /\ compiled.groupCount = 4
    /\ Len(Groups(compiled, 0)) = 4

(* C21: a group's body is matched by the same rules whether the group is   *)
(* quantified or not: on every non-empty input ^G?$ returns what ^G$       *)
(* returns.                                                                *)
C21_QuantifiedGroupSameRules ==
    \A g \in EquivalenceGroups :
        (MatchReturned /\ PatternRunes = Anchored(Optional(g))
           /\ input # <<>>)
        => result = MatchString(Anchored(g), input)

====
